---- MODULE Spec2Model ----
(***************************************************************************)
(* Model of negotiation_agent_COGNICORE.py: the buyer and seller strategy  *)
(* agents (YourBuyerAgent, YourSellerAgent), the scripted MockSellerAgent  *)
(* and the session loop run_negotiation_test with its two test drivers.    *)
(*                                                                         *)
(* Prices are Python ints.  Every float expression of the source is        *)
(* computed here in integer arithmetic that reproduces the IEEE double     *)
(* result of the source on the price range of the model (0 .. 2*10^6):     *)
(* int(x * c) is truncation of the exact product except for the two        *)
(* literals 0.82 and 1.15 (and the comparison with x * 1.1), whose double  *)
(* product falls just beside an exact integer for part of the range.       *)
(***************************************************************************)
EXTENDS Integers, Sequences, FiniteSets, TLC

(***************************************************************************)
(* Optional values: Python None is the empty tuple, a value v is <<v>>.    *)
(***************************************************************************)
None == << >>

Some(v) == << v >>

\* Python truthiness of an Optional[int]: None and 0 are both falsy.
Truthy(o) == o # None /\ o[1] # 0

Min2(a, b) == IF a <= b THEN a ELSE b

Max2(a, b) == IF a >= b THEN a ELSE b

Last(s) == s[Len(s)]

\* int(): truncation toward zero of n / d, d > 0.
TruncDiv(n, d) == IF n >= 0 THEN n \div d ELSE -((-n) \div d)

\* int(x * ratio) for a decimal literal ratio = <<numerator, denominator>>
\* whose double product truncates like the exact product.
Scale(x, ratio) == TruncDiv(x * ratio[1], ratio[2])

RECURSIVE Pow2Floor(_)
\* The largest power of two that is <= k (k >= 1): the binade of a double.
Pow2Floor(k) == IF k < 2 THEN 1 ELSE 2 * Pow2Floor(k \div 2)

\* The double product x * ratio is an exact integer K in the reals but the
\* double literal is off by less than an ulp; the rounded product misses K
\* when K sits in the upper part of its binade: tn/td is that threshold.
FloatMissesInteger(x, ratio, tn, td) ==
    LET K == (x * ratio[1]) \div ratio[2]
    IN  /\ x > 0
        /\ (x * ratio[1]) % ratio[2] = 0
        /\ K > 0
        /\ td * K > tn * Pow2Floor(K)

(***************************************************************************)
(* Program constants.                                                      *)
(***************************************************************************)
MIN_STEP == 1000

AGG_OPEN_BUDGET_RATIO == <<78, 100>>

MARKET_OPEN_RATIO == <<72, 100>>

WALKAWAY_MARKET_RATIO == <<96, 100>>

FAST_CONCESSION_AFTER == 5

FAST_CONCESSION_MULT == <<3, 2>>

EST_DECAY == <<6, 10>>

MIN_SELLER_MARGIN == <<110, 100>>

\* 1 - SAVINGS_THRESHOLD of the buyer: 1 - 0.10
BUYER_KEEP_RATIO == <<9, 10>>

MARKET_FLOOR_RATIO == <<82, 100>>

SELLER_AGG_OPEN_RATIO == <<125, 100>>

SELLER_MARKET_OPEN_RATIO == <<115, 100>>

SELLER_WALKAWAY_RATIO == <<90, 100>>

\* First round of the late-round finalization.
LATE_ROUND == 9

\* range(10) of run_negotiation_test.
MAX_ROUNDS == 10

\* int(market * 0.82): the double 0.82 lies below 82/100.
ScaleMarketFloor(x) ==
    Scale(x, MARKET_FLOOR_RATIO)
      - (IF FloatMissesInteger(x, MARKET_FLOOR_RATIO, 41, 22) THEN 1 ELSE 0)

\* int(x * 1.15): the double 1.15 lies below 115/100.
Scale115(x) ==
    Scale(x, <<115, 100>>)
      - (IF FloatMissesInteger(x, <<115, 100>>, 23, 16) THEN 1 ELSE 0)

\* ((r - 1) / 9.0) ** 0.9 for r = 1 .. 8, in units of 10^-12, as four
\* base-1000 limbs (most significant first).
EasedLimbs(r) ==
    CASE r = 1 -> <<0, 0, 0, 0>>
      [] r = 2 -> <<138, 414, 548, 846>>
      [] r = 3 -> <<258, 290, 681, 164>>
      [] r = 4 -> <<372, 41, 58, 11>>
      [] r = 5 -> <<481, 987, 453, 865>>
      [] r = 6 -> <<589, 189, 156, 452>>
      [] r = 7 -> <<694, 253, 162, 661>>
      [] r = 8 -> <<797, 572, 144, 212>>

\* d * eased(r) for d >= 0: <<integer part, TRUE iff a fraction remains>>.
MulEased(d, r) ==
    LET e  == EasedLimbs(r)
        t4 == d * e[4]
        t3 == d * e[3] + t4 \div 1000
        t2 == d * e[2] + t3 \div 1000
        t1 == d * e[1] + t2 \div 1000
    IN  << t1 \div 1000,
           t1 % 1000 # 0 \/ t2 % 1000 # 0 \/ t3 % 1000 # 0 \/ t4 % 1000 # 0 >>

\* int(base + delta * eased(r)), delta of either sign.
EasedInterpolate(base, delta, r) ==
    IF delta >= 0
    THEN base + MulEased(delta, r)[1]
    ELSE LET m  == MulEased(-delta, r)
             fl == base - m[1] - (IF m[2] THEN 1 ELSE 0)
         IN  IF fl < 0 /\ m[2] THEN fl + 1 ELSE fl

(***************************************************************************)
(* Message texts.  A text is abstracted to what the code reads from it:    *)
(* whether it is empty or absent, the keywords that occur in its lower-    *)
(* cased form, the first currency-marked group and the first group of      *)
(* five or more digits.                                                    *)
(***************************************************************************)
NoText ==
    [empty |-> TRUE, kw |-> {}, rupee |-> None, rupee_malformed |-> FALSE,
     digits |-> None]

PlainText(kws, rupee, digits) ==
    [empty |-> FALSE, kw |-> kws, rupee |-> rupee, rupee_malformed |-> FALSE,
     digits |-> digits]

\* A text whose currency group holds commas only: int("") raises, caught.
MalformedRupeeText(digits) ==
    [empty |-> FALSE, kw |-> {}, rupee |-> None, rupee_malformed |-> TRUE,
     digits |-> digits]

BuyerEmotionalKw ==
    {"angry", "insult", "unfair", "frustrat", "outrage", "hate", "never",
     "demand", "disrespect", "!", "how dare"}

BuyerPoliteKw == {"please", "kindly", "thank", "appreciate"}

BuyerLogicalKw ==
    {"market", "price", "cost", "margin", "percent", "%", "data", "analysis",
     "based on"}

BuyerDemands ==
    << "free delivery", "extended warranty (6 months)", "priority dispatch",
       "a small bulk discount on the next order", "payment terms (30 days)" >>

(***************************************************************************)
(* YourBuyerAgent                                                          *)
(***************************************************************************)
BuyerLeads ==
    << "For clarity:", "Let's be direct:", "To be efficient:",
       "Straightforwardly:" >>

BuyerTails ==
    << "Please confirm.", "I expect a prompt response.",
       "Proceed accordingly.", "This suits my thresholds." >>

\* _format_professional; lead and tail are the outcomes of random.choice.
Buyer_format_professional(content, lead, tail) ==
    [lead |-> BuyerLeads[lead], content |-> content, tail |-> BuyerTails[tail]]

BuyerFreshState ==
    [seller_history |-> << >>, min_seller_seen |-> None,
     seller_min_est |-> None,
     concessions |-> [buyer |-> << >>, seller |-> << >>],
     last_seller_tone |-> "neutral"]

\* self._state after _init_state: created only when the attribute is missing.
Buyer_init_state(state) == IF state = None THEN Some(BuyerFreshState) ELSE state

\* Buyer_analyze_seller_tone with an emotional keyword weighing -1, not -2.
Buyer_analyze_seller_tone_unit_weights(text) ==
    IF text.empty THEN "neutral"
    ELSE LET score == (-1) * Cardinality(text.kw \cap BuyerEmotionalKw)
                        + Cardinality(text.kw \cap BuyerLogicalKw)
                        + Cardinality(text.kw \cap BuyerPoliteKw)
         IN  IF score <= -1 THEN "emotional"
             ELSE IF score >= 1 THEN "logical" ELSE "neutral"

Buyer_analyze_seller_tone(text) ==
    IF text.empty THEN "neutral"
    ELSE LET score == (-2) * Cardinality(text.kw \cap BuyerEmotionalKw)
                        + Cardinality(text.kw \cap BuyerLogicalKw)
                        + Cardinality(text.kw \cap BuyerPoliteKw)
         IN  IF score <= -1 THEN "emotional"
             ELSE IF score >= 1 THEN "logical" ELSE "neutral"

\* The tactic returned by personality_adaptation.
Buyer_personality_adaptation(tone) ==
    IF tone = "emotional" THEN "logical"
    ELSE IF tone = "logical" THEN "appeal" ELSE "logical"

\* Buyer_record_concession keeping only the latest amount of the actor.
Buyer_record_concession_latest_only(st, actor, amount) ==
    [st EXCEPT !.concessions[actor] = << amount >>]

Buyer_record_concession(st, actor, amount) ==
    [st EXCEPT !.concessions[actor] = Append(@, amount)]

Buyer_seller_made_concession(st, new_seller_price) ==
    IF st.seller_history = << >> THEN None
    ELSE IF new_seller_price < Last(st.seller_history)
         THEN Some(Last(st.seller_history) - new_seller_price)
         ELSE None

\* The index (1-based here) of the demand chosen for a concession count.
Buyer_reciprocity_index(buyer_concession_count) ==
    IF buyer_concession_count > 0
    THEN Min2(Len(BuyerDemands) - 1, buyer_concession_count - 1) + 1
    ELSE 1

Buyer_format_reciprocity_request(buyer_concession_count) ==
    BuyerDemands[Buyer_reciprocity_index(buyer_concession_count)]

Buyer_extract_price(text) ==
    IF text.empty THEN None
    ELSE IF text.rupee_malformed THEN None
    ELSE IF text.rupee # None THEN text.rupee
    ELSE text.digits

Buyer_opening_offer_number(market, budget) ==
    LET opening == Min2(Scale(budget, AGG_OPEN_BUDGET_RATIO),
                        Scale(market, MARKET_OPEN_RATIO))
    IN  Max2(MIN_STEP, Min2(opening, budget))

Buyer_walkaway_cap(market, budget) ==
    Min2(Scale(market, WALKAWAY_MARKET_RATIO), budget)

\* DecayedEstimate with the weight EST_DECAY on both terms, the complement
\* 1 - EST_DECAY forgotten.
DecayedEstimate_same_weight(est, rough) ==
    TruncDiv(EST_DECAY[1] * est + EST_DECAY[1] * rough, EST_DECAY[2])

\* int(EST_DECAY * est + (1 - EST_DECAY) * rough): the double sum truncates
\* like the exact one while rough is at least a quarter of est.
DecayedEstimate(est, rough) ==
    TruncDiv(EST_DECAY[1] * est + (EST_DECAY[2] - EST_DECAY[1]) * rough,
             EST_DECAY[2])

Buyer_update_seller_estimates(st, seller_price) ==
    LET rough_floor == Scale(seller_price, <<85, 100>>)
    IN  [st EXCEPT
           !.seller_history = Append(@, seller_price),
           !.min_seller_seen =
               IF @ = None THEN Some(seller_price)
               ELSE Some(Min2(@[1], seller_price)),
           !.seller_min_est =
               IF @ = None THEN Some(rough_floor)
               ELSE Some(DecayedEstimate(@[1], rough_floor))]

Buyer_closing_target_from_estimate(st) ==
    IF ~Truthy(st.min_seller_seen) THEN None
    ELSE LET est_min_floor == Scale(st.min_seller_seen[1], <<98, 100>>)
             target == Scale(est_min_floor, MIN_SELLER_MARGIN)
         IN  Some(Max2(MIN_STEP, target))

\* generate_opening_offer: <<offer, message, new self._state>>.
Buyer_generate_opening_offer(state, market, budget) ==
    LET st    == Buyer_init_state(state)[1]
        offer == Buyer_opening_offer_number(market, budget)
    IN  [offer |-> offer,
         message |-> [kind |-> "opening", demand |-> None],
         state |-> Some(Buyer_record_concession(st, "buyer", offer))]

\* Buyer_observe reading the price of the message text before the numeric
\* argument.
Buyer_observe_text_first(st, seller_price, seller_message) ==
    LET in_text  == Buyer_extract_price(seller_message)
        observed == IF in_text # None THEN in_text ELSE seller_price
        stU == IF Truthy(observed)
               THEN Buyer_update_seller_estimates(st, observed[1])
               ELSE st
    IN  [stU EXCEPT
           !.last_seller_tone = Buyer_analyze_seller_tone(seller_message)]

\* Lines 322-330: observe the price, update estimates and ledger, set tone.
Buyer_observe(st, seller_price, seller_message) ==
    LET observed == IF seller_price # None THEN seller_price
                    ELSE Buyer_extract_price(seller_message)
        st1 == IF Truthy(observed)
               THEN LET seller_conc ==
                            IF st.seller_history # << >>
                            THEN Buyer_seller_made_concession(st, observed[1])
                            ELSE None
                        stU == Buyer_update_seller_estimates(st, observed[1])
                    IN  IF Truthy(seller_conc) /\ seller_conc[1] > 0
                        THEN Buyer_record_concession(stU, "seller",
                                                     seller_conc[1])
                        ELSE stU
               ELSE st
    IN  [st1 EXCEPT
           !.last_seller_tone = Buyer_analyze_seller_tone(seller_message)]

\* Buyer_immediate_accept without the market-floor condition of line 346.
Buyer_immediate_accept_threshold_only(market, budget, seller_price) ==
    IF seller_price = None THEN "no"
    ELSE IF seller_price[1] <= Min2(Scale(budget, BUYER_KEEP_RATIO),
                                    Buyer_walkaway_cap(market, budget))
         THEN "efficiency_threshold"
    ELSE "no"

\* Lines 342-348: the two immediate acceptance conditions.
Buyer_immediate_accept(market, budget, seller_price) ==
    LET interview_threshold == Scale(budget, BUYER_KEEP_RATIO)
        market_floor_proxy  == ScaleMarketFloor(market)
        walkaway            == Buyer_walkaway_cap(market, budget)
    IN  IF seller_price = None THEN "no"
        ELSE IF seller_price[1] <= Min2(interview_threshold, walkaway)
             THEN "efficiency_threshold"
        ELSE IF /\ seller_price[1] <= Min2(walkaway, market_floor_proxy)
                /\ seller_price[1] <= budget
             THEN "market_floor"
        ELSE "no"

\* Lines 350-352: the closing target capped by walk-away and budget.
Buyer_closing_target(st, market, budget) ==
    LET ct == Buyer_closing_target_from_estimate(st)
    IN  IF ct # None
        THEN Some(Min2(ct[1], Min2(Buyer_walkaway_cap(market, budget), budget)))
        ELSE None

\* Buyer_last_shot taken from the market ratio alone, the budget forgotten.
Buyer_last_shot_market_only(st, market, budget) ==
    Scale(market, WALKAWAY_MARKET_RATIO)

\* Lines 359-361: the last-shot price of the late rounds.
Buyer_last_shot(st, market, budget) ==
    LET walkaway == Buyer_walkaway_cap(market, budget)
        interview_threshold == Scale(budget, BUYER_KEEP_RATIO)
        closing_target == Buyer_closing_target(st, market, budget)
        last_shot == Min2(budget, walkaway)
    IN  IF Truthy(closing_target)
        THEN Min2(last_shot, Max2(interview_threshold, closing_target[1]))
        ELSE last_shot

\* Line 369: r = max(1, min(10, context.current_round)).
ClampRound(current_round) == Max2(1, Min2(10, current_round))

\* Lines 369-372, evaluated only below the late rounds (r <= 8).
Buyer_dynamic_target(market, budget, current_round) ==
    LET opening  == Buyer_opening_offer_number(market, budget)
        walkaway == Buyer_walkaway_cap(market, budget)
    IN  EasedInterpolate(opening, walkaway - opening, ClampRound(current_round))

\* Line 379: the counter when no numeric price came.
Buyer_absent_price_counter(market, budget, last_my) ==
    Min2(budget, Max2(Buyer_opening_offer_number(market, budget),
                      Scale(last_my, <<108, 100>>)))

\* Buyer_step without the acceleration of lines 396-397.
Buyer_step_without_acceleration(market, current_round, seller_price, last_my) ==
    LET gap        == Max2(0, seller_price - last_my)
        base_far   == Max2(MIN_STEP, Scale(market, <<6, 100>>))
        base_close == Max2(MIN_STEP, Scale(market, <<2, 100>>))
        den        == Max2(1, last_my)
    IN  IF gap * 100 > 18 * den THEN base_far
        ELSE IF gap * 100 > 7 * den THEN (base_far + base_close) \div 2
        ELSE base_close

\* Lines 384-397: the gap-driven step.
Buyer_step(market, current_round, seller_price, last_my) ==
    LET gap        == Max2(0, seller_price - last_my)
        base_far   == Max2(MIN_STEP, Scale(market, <<6, 100>>))
        base_close == Max2(MIN_STEP, Scale(market, <<2, 100>>))
        den        == Max2(1, last_my)
        step0      == IF gap * 100 > 18 * den THEN base_far
                      ELSE IF gap * 100 > 7 * den
                           THEN (base_far + base_close) \div 2
                           ELSE base_close
    IN  IF ClampRound(current_round) > FAST_CONCESSION_AFTER
        THEN Scale(step0, FAST_CONCESSION_MULT)
        ELSE step0

\* Lines 399-411: the counter-offer of a bargaining round.
Buyer_proposed(st, market, budget, current_round, seller_price, last_my) ==
    LET opening  == Buyer_opening_offer_number(market, budget)
        walkaway == Buyer_walkaway_cap(market, budget)
        interview_threshold == Scale(budget, BUYER_KEEP_RATIO)
        closing_target == Buyer_closing_target(st, market, budget)
        gap  == Max2(0, seller_price - last_my)
        step == Buyer_step(market, current_round, seller_price, last_my)
        target_anchor ==
            IF Truthy(closing_target)
            THEN Some(Min2(Max2(interview_threshold, closing_target[1]),
                           Min2(walkaway, budget)))
            ELSE None
        raw == IF Truthy(target_anchor)
               THEN LET toward == Max2(step,
                                       TruncDiv(target_anchor[1] - last_my, 2))
                    IN  last_my + Max2(MIN_STEP, toward)
               ELSE last_my + Max2(MIN_STEP, Max2(step, Scale(gap, <<45, 100>>)))
        raised == Max2(raw, Max2(opening, last_my))
    IN  Min2(raised, Min2(budget, walkaway))

\* Buyer_price_is_absent with the None test of line 378 dropped.
Buyer_price_is_absent_dropped(seller_price) == FALSE

\* Line 378: the test that sends an absent price to the self-increment.
Buyer_price_is_absent(seller_price) == seller_price = None

\* The tuple returned by respond_to_seller_offer, with the state it leaves.
Buyer_result(status, price, kind, demand, st) ==
    [status |-> status, price |-> price,
     message |-> [kind |-> kind, demand |-> demand],
     state |-> Some(st)]

\* Lines 413-439: record the concession and word the counter-offer.
Buyer_counter(st, tone_adapt, proposed, last_my) ==
    LET st2 == IF proposed > last_my
               THEN Buyer_record_concession(st, "buyer", proposed - last_my)
               ELSE st
        buyer_conc_count  == Len(st2.concessions.buyer)
        seller_conc_count == Len(st2.concessions.seller)
    IN  IF tone_adapt = "logical"
        THEN Buyer_result("ONGOING", proposed, "counter_logical",
                 IF buyer_conc_count > seller_conc_count
                 THEN Some(Buyer_format_reciprocity_request(buyer_conc_count))
                 ELSE None, st2)
        ELSE Buyer_result("ONGOING", proposed, "counter_appeal",
                 Some(Buyer_format_reciprocity_request(buyer_conc_count)), st2)

\* Lines 332-439: the decision once the observation is stored in st.
Buyer_decide(st, market, budget, current_round, your_offers, seller_price) ==
    LET tone_adapt == Buyer_personality_adaptation(st.last_seller_tone)
        last_my == IF your_offers # << >> THEN Last(your_offers)
                   ELSE Buyer_opening_offer_number(market, budget)
        imm == Buyer_immediate_accept(market, budget, seller_price)
    IN  IF imm # "no"
        THEN Buyer_result("ACCEPTED", seller_price[1], imm, None, st)
        ELSE IF current_round >= LATE_ROUND
        THEN IF seller_price # None /\ seller_price[1] <= budget
             THEN Buyer_result("ACCEPTED", seller_price[1], "finalizing",
                               None, st)
             ELSE Buyer_result("ONGOING", Buyer_last_shot(st, market, budget),
                      "final_offer",
                      Some(Buyer_format_reciprocity_request(
                               Len(st.concessions.buyer))), st)
        ELSE IF /\ seller_price # None
                /\ seller_price[1] <=
                     Min2(Buyer_dynamic_target(market, budget, current_round),
                          budget)
        THEN Buyer_result("ACCEPTED", seller_price[1], "agreed", None, st)
        ELSE IF Buyer_price_is_absent(seller_price)
        THEN Buyer_result("ONGOING",
                 Buyer_absent_price_counter(market, budget, last_my),
                 "request_numeric", None, st)
        ELSE IF seller_price = None
        THEN \* None - int at line 384 raises TypeError
             Buyer_result("TypeError", 0, "none", None, st)
        ELSE Buyer_counter(st, tone_adapt,
                 Buyer_proposed(st, market, budget, current_round,
                                seller_price[1], last_my),
                 last_my)

\* respond_to_seller_offer: [status, price, message, state].
Buyer_respond_to_seller_offer(state, market, budget, current_round, your_offers, seller_price, seller_message) ==
    Buyer_decide(Buyer_observe(Buyer_init_state(state)[1], seller_price,
                               seller_message),
                 market, budget, current_round, your_offers, seller_price)

(***************************************************************************)
(* YourSellerAgent                                                         *)
(***************************************************************************)
SellerEmotionalKw ==
    {"angry", "unfair", "frustrat", "demand", "unacceptable", "!", "urgent"}

SellerLogicalKw ==
    {"market", "budget", "price", "analysis", "cost", "%", "data"}

SellerPoliteKw == {"please", "thank", "appreciate"}

SellerDemands ==
    << "commitment to higher volume", "faster payment terms",
       "exclusive supplier status", "priority contract renewal",
       "multi-order agreement" >>

SellerLeads ==
    << "Professionally:", "Let's be clear:", "For efficiency:", "Directly:" >>

SellerTails ==
    << "Confirm at your earliest.", "I expect reciprocity.",
       "Proceed accordingly.", "This is sustainable." >>

\* _format_professional; lead and tail are the outcomes of random.choice.
Seller_format_professional(content, lead, tail) ==
    [lead |-> SellerLeads[lead], content |-> content,
     tail |-> SellerTails[tail]]

SellerFreshState ==
    [buyer_history |-> << >>, max_buyer_seen |-> None,
     buyer_max_est |-> None,
     concessions |-> [buyer |-> << >>, seller |-> << >>],
     last_buyer_tone |-> "neutral"]

Seller_init_state(state) ==
    IF state = None THEN Some(SellerFreshState) ELSE state

Seller_analyze_buyer_tone(text) ==
    IF text.empty THEN "neutral"
    ELSE LET score == (-2) * Cardinality(text.kw \cap SellerEmotionalKw)
                        + Cardinality(text.kw \cap SellerLogicalKw)
                        + Cardinality(text.kw \cap SellerPoliteKw)
         IN  IF score <= -1 THEN "emotional"
             ELSE IF score >= 1 THEN "logical" ELSE "neutral"

Seller_personality_adaptation(tone) ==
    IF tone = "emotional" THEN "logical"
    ELSE IF tone = "logical" THEN "appeal" ELSE "logical"

Seller_record_concession(st, actor, amount) ==
    [st EXCEPT !.concessions[actor] = Append(@, amount)]

Seller_buyer_made_concession(st, new_buyer_price) ==
    IF st.buyer_history = << >> THEN None
    ELSE IF new_buyer_price > Last(st.buyer_history)
         THEN Some(new_buyer_price - Last(st.buyer_history))
         ELSE None

Seller_reciprocity_index(seller_concession_count) ==
    IF seller_concession_count > 0
    THEN Min2(Len(SellerDemands) - 1, seller_concession_count - 1) + 1
    ELSE 1

Seller_format_reciprocity_request(seller_concession_count) ==
    SellerDemands[Seller_reciprocity_index(seller_concession_count)]

Seller_opening_offer_number(market) ==
    Max2(Scale(market, SELLER_AGG_OPEN_RATIO), Scale115(market))

Seller_walkaway_floor(market) == Scale(market, SELLER_WALKAWAY_RATIO)

Seller_update_buyer_estimates(st, buyer_price) ==
    LET rough_cap == Scale(buyer_price, <<110, 100>>)
    IN  [st EXCEPT
           !.buyer_history = Append(@, buyer_price),
           !.max_buyer_seen =
               IF @ = None THEN Some(buyer_price)
               ELSE Some(Max2(@[1], buyer_price)),
           !.buyer_max_est =
               IF @ = None THEN Some(rough_cap)
               ELSE Some(DecayedEstimate(@[1], rough_cap))]

Seller_closing_target_from_estimate(st) ==
    IF ~Truthy(st.max_buyer_seen) THEN None
    ELSE Some(Scale(st.max_buyer_seen[1], <<102, 100>>))

Seller_generate_opening_offer(state, market) ==
    LET st == Seller_init_state(state)[1]
    IN  [offer |-> Seller_opening_offer_number(market),
         message |-> [kind |-> "opening", demand |-> None],
         state |-> Some(Seller_record_concession(st, "seller", 0))]

\* Lines 629-635: observe the price, update estimates and ledger, set tone.
Seller_observe(st, buyer_price, buyer_message) ==
    LET st1 == IF Truthy(buyer_price)
               THEN LET buyer_conc ==
                            IF st.buyer_history # << >>
                            THEN Seller_buyer_made_concession(st, buyer_price[1])
                            ELSE None
                        stU == Seller_update_buyer_estimates(st, buyer_price[1])
                    IN  IF Truthy(buyer_conc) /\ buyer_conc[1] > 0
                        THEN Seller_record_concession(stU, "buyer",
                                                      buyer_conc[1])
                        ELSE stU
               ELSE st
    IN  [st1 EXCEPT
           !.last_buyer_tone = Seller_analyze_buyer_tone(buyer_message)]

\* Lines 642-644: the closing target raised to the floor.
Seller_closing_target(st, market) ==
    LET ct == Seller_closing_target_from_estimate(st)
    IN  IF ct # None THEN Some(Max2(ct[1], Seller_walkaway_floor(market)))
        ELSE None

\* Lines 651-653: the last-shot price of the late rounds.
Seller_last_shot(st, market) ==
    LET closing_target == Seller_closing_target(st, market)
        last_shot == Max2(Seller_walkaway_floor(market), market)
    IN  IF Truthy(closing_target) THEN Max2(last_shot, closing_target[1])
        ELSE last_shot

\* Lines 659-662, evaluated only below the late rounds (r <= 8).
Seller_dynamic_target(market, current_round) ==
    LET opening == Seller_opening_offer_number(market)
        floor   == Seller_walkaway_floor(market)
    IN  EasedInterpolate(opening, -(opening - floor), ClampRound(current_round))

\* Lines 648 and 664: "buyer_price and ...": a zero price is falsy.
Seller_price_is_present(buyer_price) == Truthy(buyer_price)

\* Seller_proposed without the clamp to the walk-away floor.
Seller_proposed_unclamped(market, current_round, last_my) ==
    LET step0 == Max2(MIN_STEP, Scale(market, <<5, 100>>))
    IN  last_my - (IF ClampRound(current_round) > FAST_CONCESSION_AFTER
                   THEN Scale(step0, FAST_CONCESSION_MULT)
                   ELSE step0)

\* Lines 670-675: the counter-offer of a bargaining round.
Seller_proposed(market, current_round, last_my) ==
    LET step0 == Max2(MIN_STEP, Scale(market, <<5, 100>>))
        step  == IF ClampRound(current_round) > FAST_CONCESSION_AFTER
                 THEN Scale(step0, FAST_CONCESSION_MULT)
                 ELSE step0
    IN  Max2(last_my - step, Seller_walkaway_floor(market))

\* The tuple returned by respond_to_seller_offer, with the state it leaves.
Seller_result(status, price, kind, demand, st) ==
    [status |-> status, price |-> price,
     message |-> [kind |-> kind, demand |-> demand],
     state |-> Some(st)]

\* Lines 677-693: record the concession and word the counter-offer.
Seller_counter(st, tone_adapt, proposed, last_my) ==
    LET st2 == IF proposed < last_my
               THEN Seller_record_concession(st, "seller", last_my - proposed)
               ELSE st
        buyer_conc_count  == Len(st2.concessions.buyer)
        seller_conc_count == Len(st2.concessions.seller)
    IN  IF tone_adapt = "logical"
        THEN Seller_result("ONGOING", proposed, "counter_logical",
                 IF seller_conc_count > buyer_conc_count
                 THEN Some(Seller_format_reciprocity_request(seller_conc_count))
                 ELSE None, st2)
        ELSE Seller_result("ONGOING", proposed, "counter_appeal",
                 Some(Seller_format_reciprocity_request(seller_conc_count)),
                 st2)

\* Lines 637-693: the decision once the observation is stored in st.
Seller_decide(st, market, current_round, your_offers, buyer_price) ==
    LET tone_adapt == Seller_personality_adaptation(st.last_buyer_tone)
        floor   == Seller_walkaway_floor(market)
        last_my == IF your_offers # << >> THEN Last(your_offers)
                   ELSE Seller_opening_offer_number(market)
    IN  IF current_round >= LATE_ROUND
        THEN IF Seller_price_is_present(buyer_price) /\ buyer_price[1] >= floor
             THEN Seller_result("ACCEPTED", buyer_price[1], "finalizing",
                                None, st)
             ELSE Seller_result("ONGOING", Seller_last_shot(st, market),
                      "final_offer",
                      Some(Seller_format_reciprocity_request(
                               Len(st.concessions.seller))), st)
        ELSE IF /\ Seller_price_is_present(buyer_price)
                /\ buyer_price[1] >= Seller_dynamic_target(market, current_round)
        THEN Seller_result("ACCEPTED", buyer_price[1], "agreed", None, st)
        ELSE Seller_counter(st, tone_adapt,
                 Seller_proposed(market, current_round, last_my), last_my)

\* YourSellerAgent.respond_to_seller_offer: [status, price, message, state].
Seller_respond_to_seller_offer(state, market, current_round, your_offers, buyer_price, buyer_message) ==
    Seller_decide(Seller_observe(Seller_init_state(state)[1], buyer_price,
                                 buyer_message),
                  market, current_round, your_offers, buyer_price)

(***************************************************************************)
(* MockSellerAgent                                                         *)
(***************************************************************************)
\* buyer_offer >= min_price * 1.1: the double 1.1 lies above 11/10, so the
\* product can land just above an exact integer.
Mock_good_profit(buyer_offer, min_price) ==
    LET K == -((-(min_price * 11)) \div 10)
    IN  IF FloatMissesInteger(min_price, <<11, 10>>, 11, 8)
        THEN buyer_offer >= K + 1
        ELSE buyer_offer >= K

Mock_get_opening_price(market) ==
    [price |-> Scale(market, <<3, 2>>),
     message |-> PlainText({}, Some(Scale(market, <<3, 2>>)), None)]

\* respond_to_buyer: [price, message, accepts].
Mock_respond_to_buyer(min_price, buyer_offer, round_num) ==
    IF Mock_good_profit(buyer_offer, min_price)
    THEN [price |-> buyer_offer,
          message |-> PlainText({"!"}, Some(buyer_offer), None),
          accepts |-> TRUE]
    ELSE LET counter == IF round_num >= 8
                        THEN Max2(min_price, Scale(buyer_offer, <<105, 100>>))
                        ELSE Max2(min_price, Scale115(buyer_offer))
         IN  [price |-> counter,
              message |-> PlainText({}, Some(counter), None),
              accepts |-> FALSE]

(***************************************************************************)
(* Bounds and inputs of the model.                                         *)
(***************************************************************************)
\* How often the hidden counterpart may change its answer within a session.
MaxPriceMoves == 2

\* Counterpart prices offered by the hidden counterpart, in percent of the
\* market price.
HiddenPercents == {60, 83, 95, 120, 150}

Scenario(m, b, s) == [market |-> m, budget |-> b, seller_min |-> s]

\* The scenario loop of test_buyer_agent (two products, three scenarios).
BuyerTestPlan ==
    LET For(m) == << Scenario(m, Scale(m, <<12, 10>>), Scale(m, <<8, 10>>)),
                     Scenario(m, Scale(m, <<10, 10>>), Scale(m, <<85, 100>>)),
                     Scenario(m, Scale(m, <<9, 10>>), ScaleMarketFloor(m)) >>
    IN  For(180000) \o For(150000)

\* The scenario loop of test_seller_agent (two products, six scenarios).
SellerTestPlan ==
    LET For(m) == << Scenario(m, Scale(m, <<12, 10>>), Scale(m, <<8, 10>>)),
                     Scenario(m, Scale(m, <<10, 10>>), Scale(m, <<85, 100>>)),
                     Scenario(m, Scale(m, <<9, 10>>), ScaleMarketFloor(m)),
                     Scenario(m, Scale(m, <<85, 100>>), Scale(m, <<90, 100>>)),
                     Scenario(m, Scale(m, <<8, 10>>), Scale(m, <<75, 100>>)),
                     Scenario(m, Scale(m, <<105, 100>>), Scale(m, <<95, 100>>)) >>
    IN  For(180000) \o For(150000)

\* Scenarios with prices of the order of the test products.
TypicalScenarios ==
    [single |->
        { Scenario(m, Scale(m, <<bp, 100>>), Scale(m, <<sp, 100>>)) :
            m \in {180000, 150000}, bp \in {85, 90, 100, 120},
            sp \in {80, 82, 95, 110} }
        \cup { Scenario(180000, 162000, 148000),
               Scenario(180000, 162000, 147600) },
     hidden_buyer |->
        { Scenario(180000, 216000, 0), Scenario(180000, 162000, 0),
          Scenario(180000, 153000, 0), Scenario(150000, 150000, 0) },
     hidden_seller |-> { Scenario(180000, 180000, 0) }]

\* Scenarios at the low end of the price range: a budget below MIN_STEP, a
\* market price below MIN_STEP, a market price of one unit.
SmallScenarios ==
    [single |-> { Scenario(180000, 500, 600), Scenario(1200, 900, 950) },
     hidden_buyer |-> { Scenario(180000, 500, 0), Scenario(500, 5000, 0) },
     hidden_seller |-> { Scenario(1, 1, 0) }]

\* Inputs of a single run_negotiation_test call with a fresh agent, and of
\* a session against the hidden counterpart (seller_min unused there; the
\* seller agent reads the market price only).
AllScenarios ==
    [k \in {"single", "hidden_buyer", "hidden_seller"} |->
        TypicalScenarios[k] \cup SmallScenarios[k]]

Drivers == {"test_buyer_agent", "test_seller_agent", "single", "hidden"}

\* What the hidden counterpart can say in one turn.
HiddenOffers(market) ==
    LET P(k) == Scale(market, <<k, 100>>)
        Kw(k) == CASE k = 83 -> {"market", "price"}
                   [] k = 95 -> {"unfair", "!"}
                   [] k = 120 -> {"please"}
                   [] OTHER -> {}
    IN  { [price |-> Some(P(k)), message |-> PlainText(Kw(k), Some(P(k)), None)] :
            k \in HiddenPercents }
        \cup { [price |-> Some(0), message |-> NoText],
               [price |-> None, message |-> NoText],
               [price |-> None, message |-> PlainText({"data"}, Some(P(83)), None)],
               [price |-> None, message |-> PlainText({}, None, Some(P(95)))],
               [price |-> None, message |-> MalformedRupeeText(Some(P(95)))] }

\* The hidden counterpart opens high, like the mock seller.
HiddenOpening(market) ==
    [price |-> Scale(market, <<3, 2>>),
     message |-> PlainText({}, Some(Scale(market, <<3, 2>>)), None)]

(***************************************************************************)
(* State.                                                                  *)
(***************************************************************************)
VARIABLES
    driver,        \* which caller drives the agent
    agent_class,   \* "buyer" (YourBuyerAgent) or "seller" (YourSellerAgent)
    plan,          \* the scenarios the driver runs, in order
    idx,           \* index in plan of the current (or next) session
    state,         \* the agent's _state attribute, None until created
    context,       \* the NegotiationContext of the current session
    seller,        \* the counterpart object: [kind, min_price]
    pc,            \* "idle", "agent", "seller" or "raised"
    seller_price,  \* local of run_negotiation_test (Optional)
    seller_msg,    \* local of run_negotiation_test
    status,        \* local: status of the agent's latest answer
    buyer_offer,   \* local: price of the agent's latest answer
    deal_made,     \* local
    final_price,   \* local (Optional)
    result,        \* the dict returned by the latest finished session
    moves          \* answers changed so far by the hidden counterpart

vars ==
    << driver, agent_class, plan, idx, state, context, seller, pc,
       seller_price, seller_msg, status, buyer_offer, deal_made, final_price,
       result, moves >>

NoContext ==
    [base_market_price |-> 0, your_budget |-> 0, current_round |-> 0,
     seller_offers |-> << >>, your_offers |-> << >>, messages |-> << >>]

InitWith(scenarios) ==
    /\ driver \in Drivers
    /\ agent_class \in
         CASE driver = "test_buyer_agent" -> {"buyer"}
           [] driver = "test_seller_agent" -> {"seller"}
           [] OTHER -> {"buyer", "seller"}
    /\ plan \in
         CASE driver = "test_buyer_agent" -> {BuyerTestPlan}
           [] driver = "test_seller_agent" -> {SellerTestPlan}
           [] driver = "single" -> { <<sc>> : sc \in scenarios.single }
           [] OTHER -> { <<sc>> : sc \in IF agent_class = "buyer"
                                          THEN scenarios.hidden_buyer
                                          ELSE scenarios.hidden_seller }
    /\ idx = 1
    /\ state = None
    /\ context = NoContext
    /\ seller = [kind |-> IF driver = "hidden" THEN "hidden" ELSE "mock",
                 min_price |-> 0]
    /\ pc = "idle"
    /\ seller_price = None
    /\ seller_msg = NoText
    /\ status = "ONGOING"
    /\ buyer_offer = 0
    /\ deal_made = FALSE
    /\ final_price = None
    /\ result = None
    /\ moves = 0

Init == InitWith(AllScenarios)

\* The same callers on the typical scenarios only.
InitTypical == InitWith(TypicalScenarios)

(***************************************************************************)
(* run_negotiation_test                                                    *)
(***************************************************************************)
AgentOpening ==
    IF agent_class = "buyer"
    THEN Buyer_generate_opening_offer(state, context.base_market_price,
                                      context.your_budget)
    ELSE Seller_generate_opening_offer(state, context.base_market_price)

\* The agent's respond method called on the current state and context with
\* the counterpart price and message text given.
AgentRespondTo(price, text) ==
    IF agent_class = "buyer"
    THEN Buyer_respond_to_seller_offer(state, context.base_market_price,
             context.your_budget, context.current_round + 1,
             context.your_offers, price, text)
    ELSE Seller_respond_to_seller_offer(state, context.base_market_price,
             context.current_round + 1, context.your_offers, price, text)

AgentRespond == AgentRespondTo(seller_price, seller_msg)

\* The returned message: the content between the two random phrases.
AgentFormat(content, lead, tail) ==
    IF agent_class = "buyer"
    THEN Buyer_format_professional(content, lead, tail)
    ELSE Seller_format_professional(content, lead, tail)

\* The answer r with its message as _format_professional returns it.
Phrased(r, lead, tail) ==
    [r EXCEPT !.message = AgentFormat(@, lead, tail)]

\* Lines 835-846: the result dict.
SessionResult(ctx, made, price) ==
    [deal_made |-> made, final_price |-> price, rounds |-> ctx.current_round,
     savings |-> IF made THEN ctx.your_budget - price[1] ELSE 0]

\* Lines 784-801: a session starts; the seller opens.
StartSession ==
    /\ pc = "idle"
    /\ idx <= Len(plan)
    /\ LET sc == plan[idx]
       IN  \E open \in IF seller.kind = "mock"
                       THEN {Mock_get_opening_price(sc.market)}
                       ELSE {HiddenOpening(sc.market)} :
             /\ seller' = [seller EXCEPT !.min_price = sc.seller_min]
             /\ seller_price' = Some(open.price)
             /\ seller_msg' = open.message
             /\ context' =
                  [base_market_price |-> sc.market, your_budget |-> sc.budget,
                   current_round |-> 0,
                   seller_offers |-> << Some(open.price) >>,
                   your_offers |-> << >>,
                   messages |-> << [role |-> "seller", message |-> open.message] >>]
    /\ deal_made' = FALSE
    /\ final_price' = None
    /\ moves' = 0
    /\ pc' = "agent"
    /\ UNCHANGED << driver, agent_class, plan, idx, state, status, buyer_offer,
                    result >>

\* The outcomes random.choice can give for a lead or a tail phrase.
PhrasePicks == DOMAIN BuyerLeads

\* Lines 803-821, round_num = 0: the agent opens.  The log entry keeps the
\* content of the message; its two random phrases are read by nothing.
OpeningTurn ==
    /\ pc = "agent"
    /\ context.current_round = 0
    /\ \E o \in {AgentOpening} :
         \E lead \in PhrasePicks, tail \in PhrasePicks :
         \E r \in {[o EXCEPT !.message = AgentFormat(@, lead, tail)]} :
           /\ state' = r.state
           /\ status' = "ONGOING"
           /\ buyer_offer' = r.offer
           /\ context' = [context EXCEPT
                            !.current_round = @ + 1,
                            !.your_offers = Append(@, r.offer),
                            !.messages = Append(@, [role |-> "buyer",
                                               message |-> r.message.content])]
    /\ pc' = "seller"
    /\ UNCHANGED << driver, agent_class, plan, idx, seller, seller_price,
                    seller_msg, deal_made, final_price, result, moves >>

\* AgentAnswers without the break of line 821: the seller is still asked.
AgentAnswers_without_break(r) ==
    /\ state' = r.state
    /\ status' = r.status
    /\ buyer_offer' = r.price
    /\ context' = [context EXCEPT
                     !.current_round = @ + 1,
                     !.your_offers = Append(@, r.price),
                     !.messages = Append(@, [role |-> "buyer",
                                             message |-> r.message.content])]
    /\ deal_made' = (r.status = "ACCEPTED")
    /\ final_price' = IF r.status = "ACCEPTED" THEN seller_price
                      ELSE final_price
    /\ pc' = "seller"
    /\ UNCHANGED << result, idx >>

\* Lines 814-821 and 835-846 for one agent answer r.
AgentAnswers(r) ==
    /\ state' = r.state
    /\ status' = r.status
    /\ buyer_offer' = r.price
    /\ context' = [context EXCEPT
                     !.current_round = @ + 1,
                     !.your_offers = Append(@, r.price),
                     !.messages = Append(@, [role |-> "buyer",
                                             message |-> r.message.content])]
    /\ IF r.status = "ACCEPTED"
       THEN /\ deal_made' = TRUE
            /\ final_price' = seller_price
            /\ result' = Some(SessionResult(context', TRUE, seller_price))
            /\ idx' = idx + 1
            /\ pc' = "idle"
       ELSE /\ pc' = IF r.status = "ONGOING" THEN "seller" ELSE "raised"
            /\ UNCHANGED << deal_made, final_price, result, idx >>

\* Lines 803-821, round_num >= 1: the agent answers the seller.
RespondTurn ==
    /\ pc = "agent"
    /\ context.current_round >= 1
    /\ \E r \in {AgentRespond} :
         \E lead \in PhrasePicks, tail \in PhrasePicks :
            AgentAnswers(Phrased(r, lead, tail))
    /\ UNCHANGED << driver, agent_class, plan, seller, seller_price,
                    seller_msg, moves >>

\* Lines 823-846 for one seller answer r = [price, message, accepts].
SellerAnswers(r) ==
    /\ seller_price' = r.price
    /\ seller_msg' = r.message
    /\ IF r.accepts
       THEN /\ deal_made' = TRUE
            /\ final_price' = Some(buyer_offer)
            /\ context' = [context EXCEPT
                             !.messages = Append(@, [role |-> "seller",
                                                     message |-> r.message])]
            /\ result' = Some(SessionResult(context', TRUE, Some(buyer_offer)))
            /\ idx' = idx + 1
            /\ pc' = "idle"
       ELSE /\ context' = [context EXCEPT
                             !.seller_offers = Append(@, r.price),
                             !.messages = Append(@, [role |-> "seller",
                                                     message |-> r.message])]
            /\ UNCHANGED << deal_made, final_price >>
            /\ IF context.current_round >= MAX_ROUNDS
               THEN /\ result' = Some(SessionResult(context', deal_made,
                                                    final_price))
                    /\ idx' = idx + 1
                    /\ pc' = "idle"
               ELSE /\ pc' = "agent"
                    /\ UNCHANGED << result, idx >>
    /\ UNCHANGED << driver, agent_class, plan, state, seller, status,
                    buyer_offer >>

\* Lines 823-846 with the MockSellerAgent.
MockSellerTurn ==
    /\ pc = "seller"
    /\ seller.kind = "mock"
    /\ LET r == Mock_respond_to_buyer(seller.min_price, buyer_offer,
                                      context.current_round - 1)
       IN  SellerAnswers([price |-> Some(r.price), message |-> r.message,
                          accepts |-> r.accepts])
    /\ UNCHANGED moves

\* Lines 823-846 with the hidden seller: any answer, or acceptance.
HiddenSellerTurn ==
    /\ pc = "seller"
    /\ seller.kind = "hidden"
    /\ \E r \in { [price |-> o.price, message |-> o.message, accepts |-> FALSE] :
                    o \in HiddenOffers(context.base_market_price) }
                \cup { [price |-> Some(buyer_offer), message |-> NoText,
                        accepts |-> TRUE] } :
         LET changed == r.accepts \/ r.price # seller_price
                          \/ r.message # seller_msg
         IN  /\ changed => moves < MaxPriceMoves
             /\ moves' = IF changed THEN moves + 1 ELSE moves
             /\ SellerAnswers(r)

Next ==
    \/ StartSession
    \/ OpeningTurn
    \/ RespondTurn
    \/ MockSellerTurn
    \/ HiddenSellerTurn

Spec == Init /\ [][Next]_vars

SpecTypical == InitTypical /\ [][Next]_vars

(***************************************************************************)
(* Properties.                                                             *)
(***************************************************************************)
\* The agent has answered in the current session and the seller has not
\* yet replied: status, buyer_offer and seller_price describe that call.
AgentJustAnswered == pc = "seller"

\* A session has returned and no other has started.
SessionFinished == pc = "idle" /\ result # None

\* C1: every price YourBuyerAgent returns in a session -- the opening offer
\* and the price of every answer, ONGOING or ACCEPTED -- is at most
\* context.your_budget.
C1_BuyerPriceWithinBudget ==
    agent_class = "buyer" =>
        \A i \in DOMAIN context.your_offers :
            context.your_offers[i] <= context.your_budget

\* C2: every price YourSellerAgent returns in a session -- its opening offer
\* and the price of every ONGOING or ACCEPTED answer -- is at least its
\* walk-away floor int(0.90 * market price).
C2_SellerPriceAboveFloor ==
    agent_class = "seller" =>
        \A i \in DOMAIN context.your_offers :
            context.your_offers[i] >= (context.base_market_price * 90) \div 100

\* C2 witness: the seller agent has conceded down to exactly its floor.
C2_Witness ==
    /\ agent_class = "seller"
    /\ AgentJustAnswered
    /\ context.current_round >= 2
    /\ status = "ONGOING"
    /\ buyer_offer = (context.base_market_price * 90) \div 100
    /\ buyer_offer > 0

\* C3: every respond call, of either agent, in every round and for every
\* input (absent or zero price, empty message included) completes without
\* an error and returns ONGOING or ACCEPTED with an integer price.
C3_RespondAlwaysAnswers ==
    /\ pc # "raised"
    /\ status \in {"ONGOING", "ACCEPTED"}
    /\ buyer_offer \in Int
    /\ \A i \in DOMAIN context.your_offers : context.your_offers[i] \in Int

\* C3 witness: a respond call got an absent price with an empty message.
C3_Witness ==
    /\ AgentJustAnswered
    /\ context.current_round >= 2
    /\ seller_price = None
    /\ seller_msg.empty
    /\ status = "ONGOING"

\* The acceptance threshold of the round r of a respond call, as the claim
\* C4 states it.
MeetsAcceptanceThreshold(r, price) ==
    LET m == context.base_market_price
        b == context.your_budget
    IN  IF agent_class = "buyer"
        THEN \/ r < LATE_ROUND /\ price <= Min2(Buyer_dynamic_target(m, b, r), b)
             \/ price <= Min2((b * 9) \div 10, Buyer_walkaway_cap(m, b))
        ELSE r < LATE_ROUND /\ price >= Seller_dynamic_target(m, r)

\* C4: a respond call whose (present) counterpart price satisfies the
\* round's acceptance threshold returns ACCEPTED with exactly that price.
C4_AcceptsAtThreshold ==
    [][ ( /\ pc = "agent"
          /\ context.current_round >= 1
          /\ seller_price # None
          /\ MeetsAcceptanceThreshold(context.current_round + 1,
                                      seller_price[1]) )
        => (status' = "ACCEPTED" /\ buyer_offer' = seller_price[1]) ]_vars

\* C5: the offers of YourBuyerAgent in a session never decrease: every
\* ONGOING price of rounds 2..10 is at least the previous own offer.
C5_BuyerOffersNonDecreasing ==
    agent_class = "buyer" =>
        \A i \in DOMAIN context.your_offers :
            (i >= 2 /\ (i < Len(context.your_offers) \/ status = "ONGOING"))
                => context.your_offers[i] >= context.your_offers[i - 1]

\* C6: the offers of YourSellerAgent in a session never increase: every
\* ONGOING price of rounds 2..10 is at most the previous own offer.
C6_SellerOffersNonIncreasing ==
    agent_class = "seller" =>
        \A i \in DOMAIN context.your_offers :
            (i >= 2 /\ (i < Len(context.your_offers) \/ status = "ONGOING"))
                => context.your_offers[i] <= context.your_offers[i - 1]

\* The agent holds no trace of an earlier negotiation.
AgentStateIsBlank ==
    \/ state = None
    \/ /\ agent_class = "buyer"
       /\ state[1].seller_history = << >>
       /\ state[1].min_seller_seen = None
       /\ state[1].seller_min_est = None
       /\ state[1].concessions.buyer = << >>
       /\ state[1].concessions.seller = << >>
    \/ /\ agent_class = "seller"
       /\ state[1].buyer_history = << >>
       /\ state[1].max_buyer_seen = None
       /\ state[1].buyer_max_est = None
       /\ state[1].concessions.buyer = << >>
       /\ state[1].concessions.seller = << >>

\* C7: each negotiation owns an isolated agent state: at the first agent
\* call of every session the counterpart history is empty, the running
\* extreme and the decayed estimate are absent and both ledgers are empty.
C7_SessionStartsBlank ==
    (pc = "agent" /\ context.current_round = 0) => AgentStateIsBlank

\* C8: with the seller floor strictly above the buyer budget, a session of
\* a fresh YourBuyerAgent against the MockSellerAgent ends without a deal
\* after all 10 rounds, and no buyer offer exceeds the budget.
C8_NoOverlapNoDeal ==
    ( /\ driver = "single"
      /\ agent_class = "buyer"
      /\ plan[1].seller_min > plan[1].budget
      /\ SessionFinished )
    => /\ ~result[1].deal_made
       /\ result[1].rounds = MAX_ROUNDS
       /\ \A i \in DOMAIN context.your_offers :
              context.your_offers[i] <= context.your_budget

ScenarioA == Scenario(180000, 216000, 144000)

ScenarioB == Scenario(180000, 162000, 147600)

\* C9: with market price 180000 a fresh YourBuyerAgent closes a deal within
\* 10 rounds in scenario A (budget 216000, floor 144000) and in scenario B
\* (budget 162000, floor 147600).
C9_ScenariosAandBClose ==
    ( /\ driver = "single"
      /\ agent_class = "buyer"
      /\ plan[1] \in {ScenarioA, ScenarioB} )
    => /\ context.current_round <= MAX_ROUNDS
       /\ SessionFinished =>
            /\ result[1].deal_made
            /\ result[1].rounds <= MAX_ROUNDS

\* C9 witness: the session of scenario B has returned with a deal.
C9_Witness ==
    /\ driver = "single"
    /\ agent_class = "buyer"
    /\ plan[1] = ScenarioB
    /\ SessionFinished
    /\ result[1].deal_made

\* The hard constraint of the agent on one of its prices.
WithinHardConstraint(price) ==
    IF agent_class = "buyer"
    THEN price <= context.your_budget
    ELSE price >= (context.base_market_price * 90) \div 100

\* C10: a session runs at most 10 rounds; when nobody accepted by the end
\* of round 10 the session reports the no-deal outcome (deal_made false,
\* no final price, rounds = 10) while the agent's answers stayed ONGOING,
\* and the agent's answer of round 10 respects its hard constraint.
C10_RoundCapTermination ==
    /\ context.current_round <= MAX_ROUNDS
    /\ Len(context.your_offers) <= MAX_ROUNDS
    /\ (SessionFinished /\ ~result[1].deal_made) =>
          /\ result[1].final_price = None
          /\ result[1].rounds = MAX_ROUNDS
          /\ status = "ONGOING"
          /\ Len(context.your_offers) = MAX_ROUNDS
          /\ WithinHardConstraint(context.your_offers[MAX_ROUNDS])

\* C10 witness: a session against the mock seller ran out of rounds.
C10_Witness ==
    /\ driver = "single"
    /\ SessionFinished
    /\ ~result[1].deal_made
    /\ result[1].rounds = MAX_ROUNDS
    /\ context.current_round = MAX_ROUNDS

IsPrefix(s, t) == Len(s) <= Len(t) /\ \A i \in DOMAIN s : s[i] = t[i]

\* The ledgers of the agent only grow at the end.
LedgersOnlyGrow ==
    /\ state # None => state' # None
    /\ (state # None /\ state' # None) =>
          /\ IsPrefix(state[1].concessions.buyer, state'[1].concessions.buyer)
          /\ IsPrefix(state[1].concessions.seller, state'[1].concessions.seller)

\* The demand index (0-based, as in the source) of own concession count n
\* is min(4, n - 1) for n >= 1 and 0 for n = 0.
DemandIndexAsStated(n) ==
    LET stated == IF n >= 1 THEN Min2(4, n - 1) ELSE 0
    IN  /\ Buyer_reciprocity_index(n) - 1 = stated
        /\ Seller_reciprocity_index(n) - 1 = stated
        /\ stated \in 0 .. 4
        /\ n >= 1 => Buyer_reciprocity_index(n) >= Buyer_reciprocity_index(n - 1)
        /\ n >= 1 => Seller_reciprocity_index(n) >= Seller_reciprocity_index(n - 1)

\* C12: across the opening and respond calls the entries of each actor's
\* concession ledger are only ever appended to (the count never decreases,
\* earlier entries never change), and the demand index of own concession
\* count n is min(4, n - 1) for n >= 1 (0 for n = 0): non-decreasing in n
\* and inside the five-entry catalog.
C12_LedgerAppendOnly ==
    [][ /\ LedgersOnlyGrow
        /\ state' # None =>
             \A n \in 0 .. Len(state'[1].concessions.buyer)
                            + Len(state'[1].concessions.seller) :
                 DemandIndexAsStated(n) ]_vars

\* C12 witness: a buyer agent whose own ledger went past the end of the
\* catalog while the seller's ledger holds entries too.
C12_Witness ==
    /\ agent_class = "buyer"
    /\ state # None
    /\ Len(state[1].concessions.buyer) >= 6
    /\ Len(state[1].concessions.seller) >= 2

\* What a respond call leaves besides the message: status, price, and the
\* estimator and ledger part of the agent state (all but the stored tone).
NumericOutcome(r) ==
    [status |-> r.status, price |-> r.price,
     state |-> IF agent_class = "buyer"
               THEN [r.state[1] EXCEPT !.last_seller_tone = "neutral"]
               ELSE [r.state[1] EXCEPT !.last_buyer_tone = "neutral"]]

\* Other message texts the counterpart could have sent with the same
\* price: none, an emotional one and a logical one that carry other
\* prices, and one with a malformed currency group.
OtherTexts ==
    LET P(k) == Scale(context.base_market_price, <<k, 100>>)
    IN  { NoText,
          PlainText({"unfair", "!"}, Some(P(83)), None),
          PlainText({"market", "price", "please"}, None, Some(P(95))),
          MalformedRupeeText(Some(P(120))) }

\* Every choice of phrases for the answer r leaves the numeric outcome n.
PhrasesLeave(r, n) ==
    \A lead \in PhrasePicks, tail \in PhrasePicks :
        NumericOutcome(Phrased(r, lead, tail)) = n

\* C13: a respond call made from the same agent state and context with the
\* same numeric counterpart price returns the same status and price and
\* leaves the same estimator and ledger state whatever the counterpart's
\* message text (and so its tone) and whatever phrases random.choice picks.
C13_NumericOutcomeIgnoresPhrasing ==
    ( /\ pc = "agent"
      /\ context.current_round >= 1
      /\ seller_price # None )
    => \A text \in OtherTexts \cup {seller_msg} :
          PhrasesLeave(AgentRespondTo(seller_price, text),
                       NumericOutcome(AgentRespond))

\* C13 witness: the agent has answered a numeric price whose message read
\* as logical, so that its counter was worded as an appeal.
C13_Witness ==
    /\ AgentJustAnswered
    /\ context.current_round >= 2
    /\ seller_price # None
    /\ Buyer_analyze_seller_tone(seller_msg) = "logical"
    /\ Seller_analyze_buyer_tone(seller_msg) = "logical"
    /\ status = "ONGOING"
    /\ Last(context.messages).message.kind = "counter_appeal"

\* The class the claim C14 states for e emotional, l logical and p
\* politeness keywords matched.
ToneAsStated(e, l, p) ==
    LET score == (-2) * e + l + p
    IN  CASE score <= -1 -> "emotional"
          [] score >= 1  -> "logical"
          [] OTHER       -> "neutral"

\* The tactic the claim C14 states for a tone.
TacticAsStated(tone) == IF tone = "logical" THEN "appeal" ELSE "logical"

\* Keywords added to the text at hand to vary the three counts.
ToneSampleExtras ==
    { {}, {"market"}, {"market", "price", "data"}, {"please", "thank"},
      {"unfair"}, {"demand", "cost"}, {"!", "angry", "%", "analysis",
                                       "appreciate"} }

\* Both classifiers agree with the stated function on the text.
ToneMatchesStated(text) ==
    LET be == Cardinality(text.kw \cap BuyerEmotionalKw)
        bl == Cardinality(text.kw \cap BuyerLogicalKw)
        bp == Cardinality(text.kw \cap BuyerPoliteKw)
        se == Cardinality(text.kw \cap SellerEmotionalKw)
        sl == Cardinality(text.kw \cap SellerLogicalKw)
        sp == Cardinality(text.kw \cap SellerPoliteKw)
        bt == Buyer_analyze_seller_tone(text)
        sT == Seller_analyze_buyer_tone(text)
    IN  /\ bt = IF text.empty THEN "neutral" ELSE ToneAsStated(be, bl, bp)
        /\ sT = IF text.empty THEN "neutral" ELSE ToneAsStated(se, sl, sp)
        /\ bt \in {"emotional", "logical", "neutral"}
        /\ sT \in {"emotional", "logical", "neutral"}
        /\ Buyer_personality_adaptation(bt) = TacticAsStated(bt)
        /\ Seller_personality_adaptation(sT) = TacticAsStated(sT)

\* C14: the tone of a text is a function of the keyword sets matched in it:
\* score = -2e + l + p, emotional for score <= -1, logical for score >= 1,
\* neutral otherwise and for an empty or absent text; exactly one class is
\* returned, and the tactic is appeal for logical and logical otherwise.
\* The tone a respond call stores is that class of the message it was given.
C14_ToneIsStatedFunction ==
    /\ \A extra \in ToneSampleExtras :
          ToneMatchesStated(IF seller_msg.empty THEN seller_msg
                            ELSE [seller_msg EXCEPT !.kw = @ \cup extra])
    /\ (AgentJustAnswered /\ context.current_round >= 2) =>
          IF agent_class = "buyer"
          THEN state[1].last_seller_tone
                 = Buyer_analyze_seller_tone(seller_msg)
          ELSE state[1].last_buyer_tone
                 = Seller_analyze_buyer_tone(seller_msg)

\* C14 witness: the buyer agent has answered a message it read as
\* emotional with a counter in the logical tactic.
C14_Witness ==
    /\ agent_class = "buyer"
    /\ AgentJustAnswered
    /\ context.current_round >= 2
    /\ ~seller_msg.empty
    /\ state[1].last_seller_tone = "emotional"
    /\ Last(context.messages).message.kind = "counter_logical"

\* The shape of the context between the turns of a session: the log
\* alternates seller, buyer, seller, ...; before the agent's call of round
\* k = current_round + 1 there are k seller offers and k - 1 own offers;
\* once a deal is made the session has returned.
TurnsAlternate ==
    /\ \A i \in DOMAIN context.messages :
          context.messages[i].role = IF i % 2 = 1 THEN "seller" ELSE "buyer"
    /\ pc = "agent" =>
          /\ Len(context.seller_offers) = context.current_round + 1
          /\ Len(context.your_offers) = context.current_round
          /\ Len(context.messages) = 2 * context.current_round + 1
    /\ pc = "seller" =>
          /\ Len(context.seller_offers) = context.current_round
          /\ Len(context.your_offers) = context.current_round
          /\ Len(context.messages) = 2 * context.current_round
    /\ deal_made => pc = "idle"

\* C15: in run_negotiation_test the seller opens and the two sides then
\* alternate: the roles of the log alternate seller, buyer, ...; the round
\* number grows by exactly one with every buyer turn (1, 2, ...) and with
\* nothing else; the buyer's call of round k sees k seller offers and
\* k - 1 own offers; after a deal no further agent or seller call is made.
C15_StrictAlternation ==
    [][ /\ TurnsAlternate'
        /\ pc = "idle" => (pc' = "agent" /\ context'.current_round = 0)
        /\ pc = "agent" =>
             /\ context'.current_round = context.current_round + 1
             /\ pc' \in {"seller", "idle"}
             /\ pc' = "idle" <=> deal_made'
        /\ pc = "seller" =>
             /\ context'.current_round = context.current_round
             /\ pc' \in {"agent", "idle"}
             /\ pc' = "agent" => ~deal_made' ]_vars

\* C15 witness: the agent closed a deal with the mock seller in a round
\* after the second; the log ends with the agent's message.
C15_Witness ==
    /\ seller.kind = "mock"
    /\ SessionFinished
    /\ deal_made
    /\ context.current_round >= 3
    /\ Len(context.messages) = 2 * context.current_round
    /\ Last(context.messages).role = "buyer"

\* C16: whenever run_negotiation_test with YourBuyerAgent closes a deal,
\* by the buyer's or by the mock seller's acceptance, the final price lies
\* between the seller floor and the buyer budget, and the reported savings
\* are not negative.
C16_DealWithinBothLimits ==
    ( /\ agent_class = "buyer"
      /\ seller.kind = "mock"
      /\ SessionFinished
      /\ result[1].deal_made )
    => /\ seller.min_price <= result[1].final_price[1]
       /\ result[1].final_price[1] <= context.your_budget
       /\ result[1].savings >= 0

\* C17: when the feasible ranges overlap (seller floor <= buyer budget) a
\* session of a fresh YourBuyerAgent against the MockSellerAgent closes a
\* deal within the 10 rounds.
C17_OverlapClosesDeal ==
    ( /\ driver = "single"
      /\ agent_class = "buyer"
      /\ plan[1].seller_min <= plan[1].budget
      /\ SessionFinished )
    => /\ result[1].deal_made
       /\ result[1].rounds <= MAX_ROUNDS

\* C18: a session of test_seller_agent whose seller floor is above the
\* buyer budget (the very_hard scenario) ends as no-deal after the round
\* cap; no deal is closed at a price above the buyer budget.
C18_SellerTestNoOverlapNoDeal ==
    ( /\ driver = "test_seller_agent"
      /\ SessionFinished
      /\ seller.min_price > context.your_budget )
    => /\ ~result[1].deal_made
       /\ result[1].rounds = MAX_ROUNDS
       /\ result[1].final_price = None

\* The agent's own ledger and the counterpart's ledger in its state.
OwnLedger ==
    IF agent_class = "buyer" THEN state[1].concessions.buyer
    ELSE state[1].concessions.seller

CounterpartLedger(st) ==
    IF st = None THEN << >>
    ELSE IF agent_class = "buyer" THEN st[1].concessions.seller
    ELSE st[1].concessions.buyer

\* The catalog entry the claim C19 states for an own concession count.
DemandAsStated(own_count) ==
    IF agent_class = "buyer"
    THEN BuyerDemands[Min2(4, own_count - 1) + 1]
    ELSE SellerDemands[Min2(4, own_count - 1) + 1]

\* C19: every ONGOING answer of an agent whose own concession count, after
\* the updates of the round, exceeds the counterpart's carries a non-price
\* demand -- in a bargaining counter, in the counter to an absent price and
\* in the final offer alike -- namely the catalog entry at index
\* min(4, own count - 1).
C19_DemandWhenAhead ==
    ( /\ AgentJustAnswered
      /\ context.current_round >= 2
      /\ status = "ONGOING"
      /\ Len(OwnLedger) > Len(CounterpartLedger(state)) )
    => Last(context.messages).message.demand
         = Some(DemandAsStated(Len(OwnLedger)))

\* The counterpart price the respond call of round j observes: the numeric
\* argument or, for the buyer agent, else the price read from the text.
\* A price of zero counts as no observation, as in the code.
ObservedInRound(j) ==
    LET given == context.seller_offers[j]
        o == IF given # None \/ agent_class = "seller" THEN given
             ELSE Buyer_extract_price(context.messages[2 * j - 1].message)
    IN  IF Truthy(o) THEN o ELSE None

\* The price observed last by the respond calls of rounds 2 .. j of the
\* session (the opening of round 1 observes nothing), None if there is none.
LastObservedUpTo(j) ==
    LET seen == { i \in 2 .. j : ObservedInRound(i) # None }
    IN  IF seen = {} THEN None
        ELSE ObservedInRound(CHOOSE i \in seen : \A k \in seen : k <= i)

\* The entry a newly observed price new adds after the price old: the
\* amount by which the counterpart moved in its own disfavour, if it did.
ConcessionAsStated(old, new) ==
    IF old = None \/ new = None THEN << >>
    ELSE IF agent_class = "buyer" /\ new[1] < old[1] THEN << old[1] - new[1] >>
    ELSE IF agent_class = "seller" /\ new[1] > old[1] THEN << new[1] - old[1] >>
    ELSE << >>

\* C20: a respond call adds an entry to the counterpart's ledger exactly
\* when the price it observes moves strictly in the counterpart's disfavour
\* against the price observed before it (buyer agent: lower seller price;
\* seller agent: higher buyer price), the entry being the difference; an
\* equal or opposite move, and the first price observed, add nothing.
C20_CounterpartConcessionRecorded ==
    [][ ( pc = "agent" /\ context.current_round >= 1 )
        => CounterpartLedger(state') =
             CounterpartLedger(state)
               \o ConcessionAsStated(
                      LastObservedUpTo(context.current_round),
                      ObservedInRound(context.current_round + 1)) ]_vars

\* The agent's own ledger in the state st.
OwnLedgerOf(st) ==
    IF agent_class = "buyer" THEN st[1].concessions.buyer
    ELSE st[1].concessions.seller

\* The entry the claim C21 states for an answer with status s and price p
\* after the own offer last: the size of a move in the counterpart's favour.
OwnConcessionAsStated(s, p, last) ==
    IF s # "ONGOING" THEN << >>
    ELSE IF agent_class = "buyer" /\ p > last THEN << p - last >>
    ELSE IF agent_class = "seller" /\ p < last THEN << last - p >>
    ELSE << >>

\* C21: whenever a respond call returns an ONGOING price that moves in the
\* counterpart's favour against the agent's previous offer -- in a
\* bargaining counter, in the counter to an absent price or in the final
\* offer of round 9 and later -- exactly one entry, the absolute difference,
\* is appended to the agent's own ledger; otherwise that ledger is unchanged.
C21_OwnConcessionRecorded ==
    [][ ( pc = "agent" /\ context.current_round >= 1 )
        => OwnLedgerOf(state') =
             OwnLedgerOf(state)
               \o OwnConcessionAsStated(status', buyer_offer',
                                        Last(context.your_offers)) ]_vars

\* C22: in every reachable agent state every entry of both concession
\* ledgers, of the buyer agent and of the seller agent, is a strictly
\* positive integer.
C22_LedgerEntriesPositive ==
    state # None =>
        \A actor \in {"buyer", "seller"} :
            \A i \in DOMAIN state[1].concessions[actor] :
                /\ state[1].concessions[actor][i] \in Int
                /\ state[1].concessions[actor][i] > 0

\* C23: every ONGOING counter-offer stays within the agent's legal range: a
\* buyer counter lies between its opening offer and the budget, a seller
\* counter between its floor int(0.90 * market) and its opening offer.
C23_CounterWithinLegalRange ==
    ( /\ AgentJustAnswered
      /\ context.current_round >= 2
      /\ status = "ONGOING" )
    => IF agent_class = "buyer"
       THEN /\ context.your_offers[1] <= buyer_offer
            /\ buyer_offer <= context.your_budget
       ELSE /\ (context.base_market_price * 90) \div 100 <= buyer_offer
            /\ buyer_offer <= context.your_offers[1]

\* C24: the walk-away bound limits every offer the agent proposes: no
\* ONGOING price of the buyer, in any round or branch, exceeds its walk-away
\* cap min(int(0.96 * market), budget), and no ONGOING price of the seller
\* is below its walk-away floor int(0.90 * market).
C24_WalkawayLimitsEveryOffer ==
    ( /\ AgentJustAnswered
      /\ context.current_round >= 2
      /\ status = "ONGOING" )
    => IF agent_class = "buyer"
       THEN buyer_offer <= Min2((context.base_market_price * 96) \div 100,
                                context.your_budget)
       ELSE buyer_offer >= (context.base_market_price * 90) \div 100

\* The last-shot price the claim C25 states for the agent state st: the
\* better, from the agent's side, of its walk-away bound and its closing
\* target; the walk-away bound when there is no closing target.
LastShotAsStated(st) ==
    LET m == context.base_market_price
        b == context.your_budget
    IN  IF agent_class = "buyer"
        THEN LET cap == Min2((m * 96) \div 100, b)
                 ct  == Buyer_closing_target_from_estimate(st)
             IN  IF ct = None THEN cap ELSE Min2(cap, ct[1])
        ELSE LET floor == (m * 90) \div 100
                 ct    == Seller_closing_target_from_estimate(st)
             IN  IF ct = None THEN floor ELSE Max2(floor, ct[1])

\* C25: in round 9 or later an agent that does not accept returns ONGOING
\* with a last-shot price equal to the better, from its own side, of its
\* walk-away bound and its closing target: min(cap, target) for the buyer,
\* max(floor, target) for the seller, the walk-away bound without a target.
C25_LastShotIsBetterOfBoundAndTarget ==
    ( /\ AgentJustAnswered
      /\ context.current_round >= LATE_ROUND
      /\ status # "ACCEPTED" )
    => /\ status = "ONGOING"
       /\ buyer_offer = LastShotAsStated(state[1])

\* The counters the claim C26 admits after the own offer last when no
\* numeric price came: a move of 8% of the last own offer.  For the buyer
\* the claim gives the expression; for the seller it is mirrored, with
\* either truncation of the 8% admitted.
AbsentPriceCounterAsStated(last) ==
    LET m == context.base_market_price
        b == context.your_budget
    IN  IF agent_class = "buyer"
        THEN { Min2(b, Max2(context.your_offers[1], (last * 108) \div 100)) }
        ELSE { Max2((m * 90) \div 100, (last * 92) \div 100),
               Max2((m * 90) \div 100, last - (last * 8) \div 100) }

\* C26: in a bargaining round (below round 9) whose numeric counterpart
\* price is absent the agent returns ONGOING, never ACCEPTED, whatever
\* price the message text carries, with a counter that moves its last own
\* offer by 8% of it: min(budget, max(opening, int(1.08 * last))) for the
\* buyer.
C26_AbsentPriceSelfIncrement ==
    ( /\ AgentJustAnswered
      /\ context.current_round >= 2
      /\ context.current_round < LATE_ROUND
      /\ seller_price = None )
    => /\ status = "ONGOING"
       /\ buyer_offer \in AbsentPriceCounterAsStated(
                              context.your_offers[context.current_round - 1])

\* The counterpart prices the agent has observed, oldest first.
ObservedHistory ==
    IF agent_class = "buyer" THEN state[1].seller_history
    ELSE state[1].buyer_history

RECURSIVE EstimatorAfter(_)
\* The agent state the estimator is in after observing the prices h.
EstimatorAfter(h) ==
    IF h = << >>
    THEN IF agent_class = "buyer" THEN BuyerFreshState ELSE SellerFreshState
    ELSE IF agent_class = "buyer"
         THEN Buyer_update_seller_estimates(
                  EstimatorAfter(SubSeq(h, 1, Len(h) - 1)), Last(h))
         ELSE Seller_update_buyer_estimates(
                  EstimatorAfter(SubSeq(h, 1, Len(h) - 1)), Last(h))

\* The closing target the code computes in the agent state st.
ClosingTargetOf(st) ==
    IF agent_class = "buyer" THEN Buyer_closing_target_from_estimate(st)
    ELSE Seller_closing_target_from_estimate(st)

\* The closing target the claim C27 states for the state st: the margin
\* applied to the more conservative of the running extreme (with its 2%)
\* and the decayed estimate, "more conservative" read as the lower one
\* (pick = "min") or as the higher one (pick = "max").
ClosingTargetAsStated(st, pick) ==
    LET Pick(a, b) == IF pick = "min" THEN Min2(a, b) ELSE Max2(a, b)
    IN  IF agent_class = "buyer"
        THEN Some(Max2(MIN_STEP,
                  Scale(Pick(Scale(st.min_seller_seen[1], <<98, 100>>),
                             st.seller_min_est[1]),
                        MIN_SELLER_MARGIN)))
        ELSE Some(Pick(Scale(st.max_buyer_seen[1], <<102, 100>>),
                       st.buyer_max_est[1]))

\* C27: the closing target is a two-stage estimate that uses both the
\* running extreme of the counterpart's offers and the decayed estimate,
\* the margin being applied to whichever of the two is more conservative
\* (so that states with one running extreme and different decayed estimates
\* can have different targets): after each of the prices the agent has
\* observed, the target computed was that value, under one reading of
\* "more conservative".
C27_ClosingTargetUsesBothEstimates ==
    ( /\ state # None
      /\ ObservedHistory # << >>
      /\ \A i \in DOMAIN ObservedHistory : ObservedHistory[i] > 0 )
    => \E pick \in {"min", "max"} :
          \A i \in DOMAIN ObservedHistory :
             ClosingTargetOf(EstimatorAfter(SubSeq(ObservedHistory, 1, i)))
               = ClosingTargetAsStated(
                     EstimatorAfter(SubSeq(ObservedHistory, 1, i)), pick)

\* The history and the decayed estimate in the agent state st.
HistoryOf(st) ==
    IF agent_class = "buyer" THEN st[1].seller_history
    ELSE st[1].buyer_history

EstimateOf(st) ==
    IF agent_class = "buyer" THEN st[1].seller_min_est[1]
    ELSE st[1].buyer_max_est[1]

\* The rough proxy of a counterpart price p as the claim C28 states it.
ProxyAsStated(p) ==
    IF agent_class = "buyer" THEN (p * 85) \div 100 ELSE (p * 110) \div 100

Distance(a, b) == IF a >= b THEN a - b ELSE b - a

\* The last n entries of h are one identical price.
LastAreIdentical(h, n) ==
    /\ Len(h) >= n
    /\ \A i \in (Len(h) - n + 1) .. Len(h) : h[i] = Last(h)

\* C28: under repeated observations of one identical counterpart price p
\* the decayed estimate moves toward the rough proxy of p (int(0.85 * p)
\* for the buyer, int(1.10 * p) for the seller): from one observation to
\* the next the distance to the proxy never grows and the estimate never
\* crosses to the other side of the proxy; and when p is all the agent has
\* observed since it was created, the estimate is within 2 of the proxy
\* after every observation.
C28_EstimateMovesTowardProxy ==
    [][ ( /\ pc = "agent"
          /\ state # None
          /\ HistoryOf(state) # << >>
          /\ HistoryOf(state') = Append(HistoryOf(state),
                                        Last(HistoryOf(state))) )
        => LET proxy == ProxyAsStated(Last(HistoryOf(state)))
               old   == EstimateOf(state)
               new   == EstimateOf(state')
           IN  /\ Distance(new, proxy) <= Distance(old, proxy)
               /\ old >= proxy => new >= proxy
               /\ old <= proxy => new <= proxy
               /\ LastAreIdentical(HistoryOf(state'), Len(HistoryOf(state')))
                    => Distance(new, proxy) <= 2 ]_vars

\* C28 witness: the agent has observed one price five times in a row after
\* a different one, and its estimate is still on the way to the proxy.
C28_Witness ==
    /\ AgentJustAnswered
    /\ state # None
    /\ Len(HistoryOf(state)) >= 6
    /\ LastAreIdentical(HistoryOf(state), 5)
    /\ HistoryOf(state)[Len(HistoryOf(state)) - 5] # Last(HistoryOf(state))
    /\ EstimateOf(state) # ProxyAsStated(Last(HistoryOf(state)))

\* The step the claim C29 states for market m, round r, seller price sp
\* and last own offer last.
StepAsStated(m, r, sp, last) ==
    LET gap   == Max2(0, sp - last)
        den   == Max2(1, last)
        large == Max2(1000, (m * 6) \div 100)
        small == Max2(1000, (m * 2) \div 100)
        step  == IF gap * 100 > 18 * den THEN large
                 ELSE IF gap * 100 > 7 * den THEN (large + small) \div 2
                 ELSE small
    IN  IF r > 5 THEN (step * 3) \div 2 ELSE step

\* The target anchor of lines 399-402 in the agent state st.
TargetAnchorOf(st, m, b) ==
    LET cap == Min2((m * 96) \div 100, b)
    IN  Min2(Max2((b * 9) \div 10, Buyer_closing_target(st, m, b)[1]),
             Min2(cap, b))

\* The counter the claim C29 states: the last own offer plus the larger of
\* the step and half the distance to the target anchor, clamped to
\* min(budget, walk-away cap).
CounterAsStated(st, m, b, r, sp, last) ==
    LET half == TruncDiv(TargetAnchorOf(st, m, b) - last, 2)
    IN  Min2(last + Max2(StepAsStated(m, r, sp, last), half),
             Min2(b, Min2((m * 96) \div 100, b)))

\* The buyer agent has just answered with a bargaining counter.
BuyerJustCountered ==
    /\ agent_class = "buyer"
    /\ AgentJustAnswered
    /\ context.current_round >= 2
    /\ status = "ONGOING"
    /\ Last(context.messages).message.kind
         \in {"counter_logical", "counter_appeal"}

\* C29: in a buyer bargaining round that ends with a counter the step
\* follows the relative gap g = max(0, seller price - last own offer) /
\* max(1, last own offer): max(1000, 6% of market) for g > 0.18, the average
\* of the large and the small step for 0.07 < g <= 0.18, max(1000, 2% of
\* market) for g <= 0.07, times 1.5 in the rounds after round 5; and the
\* counter is the last own offer plus the larger of this step and half the
\* distance to the target anchor, clamped to min(budget, walk-away cap).
C29_GapDrivenCounter ==
    BuyerJustCountered =>
        buyer_offer =
            CounterAsStated(state[1], context.base_market_price,
                            context.your_budget, context.current_round,
                            seller_price[1],
                            context.your_offers[context.current_round - 1])

\* C29 witness: the buyer has countered after round 5 with a counter that
\* the accelerated step decides: the step exceeds half the distance to
\* the anchor and the clamp is not reached.
C29_Witness ==
    /\ BuyerJustCountered
    /\ context.current_round > FAST_CONCESSION_AFTER
    /\ buyer_offer < Min2(context.your_budget,
                          (context.base_market_price * 96) \div 100)
    /\ buyer_offer - context.your_offers[context.current_round - 1]
         > TruncDiv(TargetAnchorOf(state[1], context.base_market_price,
                                   context.your_budget)
                      - context.your_offers[context.current_round - 1], 2)

\* The agent's respond method called in the given round on the current
\* state, context, counterpart price and message.
AgentRespondIn(round) ==
    IF agent_class = "buyer"
    THEN Buyer_respond_to_seller_offer(state, context.base_market_price,
             context.your_budget, round, context.your_offers, seller_price,
             seller_msg)
    ELSE Seller_respond_to_seller_offer(state, context.base_market_price,
             round, context.your_offers, seller_price, seller_msg)

\* C30: the agent's willingness to accept only grows with time: for a fixed
\* product, budget and agent state, a counterpart price that is ACCEPTED in
\* round r is ACCEPTED in every later round r' > r as well.
C30_AcceptanceGrowsWithTime ==
    ( /\ pc = "agent"
      /\ context.current_round >= 1
      /\ seller_price # None )
    => \A r \in 2 .. MAX_ROUNDS :
          AgentRespondIn(r).status = "ACCEPTED"
            => \A later \in (r + 1) .. MAX_ROUNDS :
                  AgentRespondIn(later).status = "ACCEPTED"

\* C31: an ONGOING counter never crosses the counterpart's current price:
\* a counter of the buyer to a present seller price is at most that price,
\* a counter of the seller to a present buyer price is at least that price.
C31_CounterNeverCrossesPrice ==
    ( /\ AgentJustAnswered
      /\ context.current_round >= 2
      /\ status = "ONGOING"
      /\ seller_price # None
      /\ Last(context.messages).message.kind
           \in {"counter_logical", "counter_appeal"} )
    => IF agent_class = "buyer"
       THEN buyer_offer <= seller_price[1]
       ELSE buyer_offer >= seller_price[1]

====
